---- MODULE Spec2Model ----
(***************************************************************************)
(* ipynb_to_py.py: notebook -> script conversion.                          *)
(*                                                                         *)
(* A text is a sequence of tokens; the token "\n" is the line break, every *)
(* other token is a piece of one line ("def ", "# ", an identifier, "=").  *)
(* Whitespace inside a line is not a token, apart from the indentation     *)
(* unit "    " and the blank " ".                                          *)
(***************************************************************************)
EXTENDS Integers, Sequences, FiniteSets, TLC

VARIABLES
    pc,             \* position in convert_ipynb_to_py
    notebook,       \* notebook.cells, as read from ipynb_path
    remove_unused,  \* argument of convert_ipynb_to_py
    use_black,      \* argument of convert_ipynb_to_py
    idx,            \* index of the next cell of the for loop (1-based)
    python_code,    \* the assembled text
    formatted_code, \* the text to be written
    changes,        \* the list of changes the formatter returned
    log,            \* records emitted through logging
    outFile,        \* the file at py_path
    tempFile,       \* the temporary file of format_with_black
    blackPath,      \* exit path format_with_black took ("" = not called)
    abortStage,     \* stage whose exception ended the run ("" = none)
    p_pc,           \* pruning harness: position
    p_source,       \* pruning harness: source_code given to the first call
    p_once,         \* pruning harness: result of the first call
    p_twice,        \* pruning harness: result of the call on that result
    f_pc,           \* formatting harness: position
    f_source,       \* formatting harness: source_code given to format_code
    f_result        \* formatting harness: what format_code returned

vars == <<pc, notebook, remove_unused, use_black, idx, python_code,
          formatted_code, changes, log, outFile, tempFile, blackPath,
          abortStage, p_pc, p_source, p_once, p_twice, f_pc, f_source,
          f_result>>

convVars == <<pc, notebook, remove_unused, use_black, idx, python_code,
              formatted_code, changes, log, outFile, tempFile, blackPath,
              abortStage>>
pruneVars == <<p_pc, p_source, p_once, p_twice>>
fmtVars == <<f_pc, f_source, f_result>>

-----------------------------------------------------------------------------
(* Bounds *)

MaxCells == 2
MaxStmts == 3
MaxLines == 4

-----------------------------------------------------------------------------
(* Text: str.splitlines, str.join, str.startswith, str.strip *)

NL == "\n"
INDENT == "    "
BlankTokens == {" ", INDENT}

RECURSIVE SplitFrom(_, _, _, _)
SplitFrom(text, k, cur, acc) ==
    IF k > Len(text)
    THEN IF cur = <<>> THEN acc ELSE Append(acc, cur)
    ELSE IF text[k] = NL
         THEN SplitFrom(text, k + 1, <<>>, Append(acc, cur))
         ELSE SplitFrom(text, k + 1, Append(cur, text[k]), acc)

\* str.splitlines(): no empty last line after a final line break
splitlines(text) == SplitFrom(text, 1, <<>>, <<>>)

RECURSIVE join(_, _)
\* sep.join(lines)
join(sep, lines) ==
    IF lines = <<>> THEN <<>>
    ELSE IF Len(lines) = 1 THEN lines[1]
    ELSE lines[1] \o sep \o join(sep, Tail(lines))

startswith(line, tok) == Len(line) > 0 /\ line[1] = tok

\* line.strip() is the empty string
StripsEmpty(line) == \A k \in DOMAIN line : line[k] \in BlankTokens

RECURSIVE Concat(_)
Concat(seqs) == IF seqs = <<>> THEN <<>> ELSE seqs[1] \o Concat(Tail(seqs))

Max(S) == CHOOSE m \in S : \A n \in S : n <= m

-----------------------------------------------------------------------------
(* Syntax trees: the ast nodes the pruning pass tells apart *)

IdTokens == {"a", "b", "c", "f", "K", "obj", "x", "print"}

\* assignment targets
Name(id) == [t |-> "Name", ids |-> <<id>>]
TupleT(ids) == [t |-> "Tuple", ids |-> ids]
Attribute(obj, attr) == [t |-> "Attribute", ids |-> <<obj, attr>>]
BadTarget == [t |-> "Bad", ids |-> <<>>]

\* expressions
Constant == [e |-> "Constant", id |-> "1", arg |-> ""]
NameE(id) == [e |-> "Name", id |-> id, arg |-> ""]
Call(func, arg) == [e |-> "Call", id |-> func, arg |-> arg]
NoExpr == [e |-> "None", id |-> "", arg |-> ""]
BadExpr == [e |-> "Bad", id |-> "", arg |-> ""]

\* statements
Assign(targets, value) ==
    [kind |-> "Assign", targets |-> targets, value |-> value,
     name |-> "", args |-> <<>>, body |-> <<>>]
ExprStmt(value) ==
    [kind |-> "Expr", targets |-> <<>>, value |-> value,
     name |-> "", args |-> <<>>, body |-> <<>>]
Pass ==
    [kind |-> "Pass", targets |-> <<>>, value |-> NoExpr,
     name |-> "", args |-> <<>>, body |-> <<>>]
FunctionDef(name, args, body) ==
    [kind |-> "FunctionDef", targets |-> <<>>, value |-> NoExpr,
     name |-> name, args |-> args, body |-> body]
ClassDef(name, body) ==
    [kind |-> "ClassDef", targets |-> <<>>, value |-> NoExpr,
     name |-> name, args |-> <<>>, body |-> body]
For(target, iter, body) ==
    [kind |-> "For", targets |-> <<target>>, value |-> iter,
     name |-> "", args |-> <<>>, body |-> body]
BadStmt ==
    [kind |-> "Bad", targets |-> <<>>, value |-> NoExpr,
     name |-> "", args |-> <<>>, body |-> <<>>]

Range(s) == {s[k] : k \in DOMAIN s}

-----------------------------------------------------------------------------
(* ast.parse: lines of tokens -> Module body, or SyntaxError *)

RECURSIVE SplitTokFrom(_, _, _, _, _)
SplitTokFrom(line, tok, k, cur, acc) ==
    IF k > Len(line) THEN Append(acc, cur)
    ELSE IF line[k] = tok
         THEN SplitTokFrom(line, tok, k + 1, <<>>, Append(acc, cur))
         ELSE SplitTokFrom(line, tok, k + 1, Append(cur, line[k]), acc)

\* the pieces of a line between occurrences of tok
SplitTok(line, tok) == SplitTokFrom(line, tok, 1, <<>>, <<>>)

IsCommaList(toks) ==
    /\ Len(toks) % 2 = 1
    /\ \A k \in DOMAIN toks :
         IF k % 2 = 1 THEN toks[k] \in IdTokens ELSE toks[k] = ","

CommaElts(toks) == [k \in 1..((Len(toks) + 1) \div 2) |-> toks[2 * k - 1]]

ParseTarget(toks) ==
    IF Len(toks) = 1 /\ toks[1] \in IdTokens THEN Name(toks[1])
    ELSE IF Len(toks) = 3 /\ toks[2] = "." /\ toks[1] \in IdTokens
            /\ toks[3] \in IdTokens
         THEN Attribute(toks[1], toks[3])
    ELSE IF Len(toks) >= 5 /\ toks[1] = "(" /\ toks[Len(toks)] = ")"
            /\ IsCommaList(SubSeq(toks, 2, Len(toks) - 1))
         THEN TupleT(CommaElts(SubSeq(toks, 2, Len(toks) - 1)))
    ELSE IF Len(toks) >= 3 /\ IsCommaList(toks) THEN TupleT(CommaElts(toks))
    ELSE BadTarget

ParseExpr(toks) ==
    IF toks = <<"1">> THEN Constant
    ELSE IF Len(toks) = 1 /\ toks[1] \in IdTokens THEN NameE(toks[1])
    ELSE IF Len(toks) = 4 /\ toks[1] \in IdTokens /\ toks[2] = "("
            /\ toks[3] \in IdTokens \cup {"1"} /\ toks[4] = ")"
         THEN Call(toks[1], toks[3])
    ELSE BadExpr

\* a simple statement on one line: pass, an assignment, an expression
ParseSimple(toks) ==
    IF toks = <<"pass">> THEN Pass
    ELSE IF "=" \in Range(toks)
    THEN LET segs == SplitTok(toks, "=")
             n == Len(segs)
             targets == [k \in 1..(n - 1) |-> ParseTarget(segs[k])]
             value == ParseExpr(segs[n])
         IN IF value = BadExpr \/ BadTarget \in Range(targets)
            THEN BadStmt ELSE Assign(targets, value)
    ELSE LET value == ParseExpr(toks)
         IN IF value = BadExpr THEN BadStmt ELSE ExprStmt(value)

IsComment(line) == startswith(line, "# ")
IsIndented(line) == startswith(line, INDENT) /\ ~StripsEmpty(line)
IsHeader(line) ==
    startswith(line, "def ") \/ startswith(line, "class ")
        \/ startswith(line, "for ")

\* the header line of a compound statement, its body still empty
ParseHeader(toks) ==
    LET n == Len(toks) IN
    IF toks[1] = "def " /\ n >= 5 /\ toks[2] \in IdTokens /\ toks[3] = "("
       /\ toks[n - 1] = ")" /\ toks[n] = ":"
       /\ (n = 5 \/ IsCommaList(SubSeq(toks, 4, n - 2)))
    THEN FunctionDef(toks[2],
                     IF n = 5 THEN <<>> ELSE CommaElts(SubSeq(toks, 4, n - 2)),
                     <<>>)
    ELSE IF toks[1] = "class " /\ n = 3 /\ toks[2] \in IdTokens /\ toks[3] = ":"
    THEN ClassDef(toks[2], <<>>)
    ELSE IF toks[1] = "for " /\ n >= 5 /\ toks[2] \in IdTokens /\ toks[3] = "in"
            /\ toks[n] = ":" /\ ParseExpr(SubSeq(toks, 4, n - 1)) # BadExpr
    THEN For(Name(toks[2]), ParseExpr(SubSeq(toks, 4, n - 1)), <<>>)
    ELSE BadStmt

\* last line of the block that the header at line k opens (k if none)
BlockEnd(lines, k) ==
    LET cand == {j \in (k + 1)..Len(lines) :
                    /\ IsIndented(lines[j])
                    /\ \A m \in (k + 1)..j :
                         IsIndented(lines[m]) \/ StripsEmpty(lines[m])}
    IN IF cand = {} THEN k ELSE Max(cand)

ParseBody(lines, k, j) ==
    LET inner == SelectSeq(SubSeq(lines, k + 1, j), IsIndented)
    IN [m \in DOMAIN inner |-> ParseSimple(Tail(inner[m]))]

SyntaxError == [ok |-> FALSE, body |-> <<>>]

RECURSIVE ParseFrom(_, _, _)
ParseFrom(lines, k, acc) ==
    IF k > Len(lines) THEN [ok |-> TRUE, body |-> acc]
    ELSE LET line == lines[k] IN
         IF StripsEmpty(line) \/ IsComment(line) THEN ParseFrom(lines, k + 1, acc)
         ELSE IF IsIndented(line) THEN SyntaxError
         ELSE IF IsHeader(line)
         THEN LET head == ParseHeader(line)
                  j == BlockEnd(lines, k)
                  body == ParseBody(lines, k, j)
              IN IF head = BadStmt \/ j = k \/ BadStmt \in Range(body)
                 THEN SyntaxError
                 ELSE ParseFrom(lines, j + 1,
                                Append(acc, [head EXCEPT !.body = body]))
         ELSE LET s == ParseSimple(line)
              IN IF s = BadStmt THEN SyntaxError
                 ELSE ParseFrom(lines, k + 1, Append(acc, s))

\* ast.parse(source_code): [ok, body]; ok = FALSE stands for SyntaxError
ast_parse(source_code) == ParseFrom(splitlines(source_code), 1, <<>>)

-----------------------------------------------------------------------------
(* astunparse.unparse: Module -> text *)

CommaJoin(ids) == join(<<",">>, [k \in DOMAIN ids |-> <<ids[k]>>])

UnparseTarget(t) ==
    IF t.t = "Name" THEN <<t.ids[1]>>
    ELSE IF t.t = "Attribute" THEN <<t.ids[1], ".", t.ids[2]>>
    ELSE <<"(">> \o CommaJoin(t.ids) \o <<")">>

UnparseExpr(x) ==
    IF x.e = "Call" THEN <<x.id, "(", x.arg, ")">> ELSE <<x.id>>

\* Unparser.fill: a line break and the current indentation
Fill(depth) == <<NL>> \o [k \in 1..depth |-> INDENT]

RECURSIVE UnparseStmt(_, _)
UnparseStmt(s, depth) ==
    LET block == Concat([k \in DOMAIN s.body |-> UnparseStmt(s.body[k], depth + 1)])
    IN
    IF s.kind = "Assign"
    THEN Fill(depth)
           \o Concat([k \in DOMAIN s.targets |-> UnparseTarget(s.targets[k]) \o <<"=">>])
           \o UnparseExpr(s.value)
    ELSE IF s.kind = "Expr" THEN Fill(depth) \o UnparseExpr(s.value)
    ELSE IF s.kind = "Pass" THEN Fill(depth) \o <<"pass">>
    ELSE IF s.kind = "FunctionDef"
    THEN <<NL>> \o Fill(depth) \o <<"def ", s.name, "(">> \o CommaJoin(s.args)
           \o <<")", ":">> \o block
    ELSE IF s.kind = "ClassDef"
    THEN <<NL>> \o Fill(depth) \o <<"class ", s.name, ":">> \o block
    ELSE Fill(depth) \o <<"for ">> \o UnparseTarget(s.targets[1]) \o <<"in">>
           \o UnparseExpr(s.value) \o <<":">> \o block

\* astunparse.unparse(tree): every statement on a fresh line, a final line break
unparse(body) ==
    Concat([k \in DOMAIN body |-> UnparseStmt(body[k], 0)]) \o <<NL>>

-----------------------------------------------------------------------------
(* ast.walk: the names the two scans of remove_unused_variables collect *)

\* Name nodes in Load context below an expression
ExprLoads(x) ==
    IF x.e = "Name" THEN {x.id}
    ELSE IF x.e = "Call"
         THEN {x.id} \cup (IF x.arg \in IdTokens THEN {x.arg} ELSE {})
    ELSE {}

\* obj of the target obj.attr is a Name in Load context
TargetLoads(t) == IF t.t = "Attribute" THEN {t.ids[1]} ELSE {}

RECURSIVE StmtLoads(_)
StmtLoads(s) ==
    ExprLoads(s.value)
      \cup UNION {TargetLoads(s.targets[k]) : k \in DOMAIN s.targets}
      \cup UNION {StmtLoads(s.body[k]) : k \in DOMAIN s.body}

used_vars(body) == UNION {StmtLoads(body[k]) : k \in DOMAIN body}

RECURSIVE StmtDefs(_)
StmtDefs(s) ==
    (IF s.kind = "Assign"
     THEN {s.targets[k].ids[1] : k \in {j \in DOMAIN s.targets : s.targets[j].t = "Name"}}
     ELSE IF s.kind = "For"
     THEN (IF s.targets[1].t = "Name" THEN {s.targets[1].ids[1]} ELSE {})
     ELSE IF s.kind = "FunctionDef" THEN {s.name} \cup Range(s.args)
     ELSE IF s.kind = "ClassDef" THEN {s.name}
     ELSE {})
      \cup UNION {StmtDefs(s.body[k]) : k \in DOMAIN s.body}

defined_vars(body) == UNION {StmtDefs(body[k]) : k \in DOMAIN body}

unused_vars(body) == defined_vars(body) \ used_vars(body)

-----------------------------------------------------------------------------
(* remove_unused_variables *)

\* the targets list built for one ast.Assign node
KeptTargets(node, unused) ==
    SelectSeq(node.targets, LAMBDA t : t.t = "Name" /\ t.ids[1] \notin unused)

\* mutant of RebuildNode: a definition whose name is unused is dropped too
RebuildNode_DropsUnusedDefs(node, unused) ==
    IF node.kind = "Assign"
    THEN IF KeptTargets(node, unused) # <<>>
         THEN <<[node EXCEPT !.targets = KeptTargets(node, unused)]>>
         ELSE <<>>
    ELSE IF node.kind \in {"FunctionDef", "ClassDef"} /\ node.name \in unused
    THEN <<>>
    ELSE <<node>>

\* what the rebuild loop appends to new_tree.body for one node of tree.body
RebuildNode(node, unused) ==
    IF node.kind = "Assign"
    THEN IF KeptTargets(node, unused) # <<>>
         THEN <<[node EXCEPT !.targets = KeptTargets(node, unused)]>>
         ELSE <<>>
    ELSE <<node>>

new_tree(body) ==
    Concat([k \in DOMAIN body |-> RebuildNode(body[k], unused_vars(body))])

\* mutant of remove_unused_variables: the except clause returns no text
remove_unused_variables_EmptyOnError(source_code) ==
    LET tree == ast_parse(source_code) IN
    IF tree.ok
    THEN [text |-> unparse(new_tree(tree.body)), warned |-> FALSE]
    ELSE [text |-> <<>>, warned |-> TRUE]

\* [text, warned]: the returned text, and whether the warning was logged
remove_unused_variables(source_code) ==
    LET tree == ast_parse(source_code) IN
    IF tree.ok
    THEN [text |-> unparse(new_tree(tree.body)), warned |-> FALSE]
    ELSE [text |-> source_code, warned |-> TRUE]

-----------------------------------------------------------------------------
(* format_code *)

IsDefLine(line) == startswith(line, "def ") \/ startswith(line, "class ")

AddedNewline(i) ==
    [msg |-> "Added newline before function/class definition", line |-> i]

RECURSIVE FormatFrom_NoBlankAfter(_, _, _, _, _)
\* mutant of FormatFrom: no empty line is appended after a definition line
FormatFrom_NoBlankAfter(lines, i, formatted_lines, chg, prev_line_empty) ==
    IF i > Len(lines) THEN [lines |-> formatted_lines, changes |-> chg]
    ELSE IF IsDefLine(lines[i])
    THEN IF ~prev_line_empty /\ formatted_lines # <<>>
         THEN FormatFrom_NoBlankAfter(lines, i + 1,
                         formatted_lines \o <<<<>>, lines[i]>>,
                         Append(chg, AddedNewline(i)), FALSE)
         ELSE FormatFrom_NoBlankAfter(lines, i + 1, Append(formatted_lines, lines[i]),
                         chg, FALSE)
    ELSE FormatFrom_NoBlankAfter(lines, i + 1, Append(formatted_lines, lines[i]), chg,
                    StripsEmpty(lines[i]))

RECURSIVE FormatFrom(_, _, _, _, _)
\* the for loop of format_code; i is the 1-based number of the line
FormatFrom(lines, i, formatted_lines, chg, prev_line_empty) ==
    IF i > Len(lines) THEN [lines |-> formatted_lines, changes |-> chg]
    ELSE IF IsDefLine(lines[i])
    THEN IF ~prev_line_empty /\ formatted_lines # <<>>
         THEN FormatFrom(lines, i + 1,
                         formatted_lines \o <<<<>>, lines[i], <<>>>>,
                         Append(chg, AddedNewline(i)), TRUE)
         ELSE FormatFrom(lines, i + 1, formatted_lines \o <<lines[i], <<>>>>,
                         chg, TRUE)
    ELSE FormatFrom(lines, i + 1, Append(formatted_lines, lines[i]), chg,
                    StripsEmpty(lines[i]))

\* [text, changes]
format_code(source_code) ==
    LET r == FormatFrom(splitlines(source_code), 1, <<>>, <<>>, TRUE)
    IN [text |-> join(<<NL>>, r.lines), changes |-> r.changes]

-----------------------------------------------------------------------------
(* format_with_black *)

NoFile == [exists |-> FALSE, content |-> <<>>]
File(text) == [exists |-> TRUE, content |-> text]

\* How one call ends:
\*   tmp_missing   NamedTemporaryFile raises FileNotFoundError (no temp dir)
\*   tmp_error     NamedTemporaryFile raises another exception, no file made
\*   write_error   temp_file.write raises after the file was made
\*   black_missing subprocess.run raises FileNotFoundError (no executable)
\*   black_failed  subprocess.run raises CalledProcessError (non-zero exit)
\*   black_error   subprocess.run raises another exception
\*   read_error    reading the file back raises
\*   success       the file is read back and unlinked
BlackPaths ==
    {"tmp_missing", "tmp_error", "write_error", "black_missing",
     "black_failed", "black_error", "read_error", "success"}

\* the paths that end in the "except FileNotFoundError" clause
ToFileNotFound == {"tmp_missing", "black_missing"}
\* the paths that end in the "except subprocess.CalledProcessError" clause
ToCalledProcessError == {"black_failed"}
\* the paths that end in the "except Exception" clause
ToException == {"tmp_error", "write_error", "black_error", "read_error"}

\* the paths on which NamedTemporaryFile(delete=False) made the file
TempCreated == BlackPaths \ {"tmp_missing", "tmp_error"}

\* the temporary file when format_with_black returns: os.unlink runs on the
\* success path only
TempAfter(path, source_code) ==
    IF path \in TempCreated /\ path # "success"
    THEN File(IF path = "write_error" THEN <<>> ELSE source_code)
    ELSE NoFile

DropLeadingBlank(lines) ==
    LET first == {k \in DOMAIN lines : ~StripsEmpty(lines[k])}
    IN IF first = {} THEN <<>>
       ELSE SubSeq(lines, CHOOSE k \in first : \A m \in first : k <= m, Len(lines))

DropTrailingBlank(lines) ==
    LET last == {k \in DOMAIN lines : ~StripsEmpty(lines[k])}
    IN IF last = {} THEN <<>> ELSE SubSeq(lines, 1, Max(last))

\* What the external formatter may leave in the file it exits zero on: the
\* text as it was, or the text without blank lines at either end and with
\* one final line break.
BlackRewrites(text) ==
    LET kept == DropTrailingBlank(DropLeadingBlank(splitlines(text)))
    IN {text, IF kept = <<>> THEN <<>> ELSE join(<<NL>>, kept) \o <<NL>>}

\* the formatter exits zero only on text it can parse
BlackAccepts(text) == ast_parse(text).ok

\* mutant of format_with_black: FileNotFoundError is not told apart, so a
\* missing executable ends like any other exception
format_with_black_NoFallback(source_code, path, rewritten) ==
    IF path = "success"
    THEN [text |-> rewritten,
          changes |-> <<[msg |-> "Formatted using black", line |-> 0]>>,
          warnings |-> <<>>,
          temp |-> TempAfter(path, source_code)]
    ELSE IF path \in ToCalledProcessError
    THEN [text |-> source_code,
          changes |-> <<[msg |-> "black formatting failed", line |-> 0]>>,
          warnings |-> <<"black formatting failed">>,
          temp |-> TempAfter(path, source_code)]
    ELSE [text |-> source_code,
          changes |-> <<[msg |-> "black formatting error", line |-> 0]>>,
          warnings |-> <<"black formatting error">>,
          temp |-> TempAfter(path, source_code)]

\* [text, changes, warnings, temp] of one call that ends along `path`, the
\* formatter having left `rewritten` in the file
format_with_black(source_code, path, rewritten) ==
    IF path = "success"
    THEN [text |-> rewritten,
          changes |-> <<[msg |-> "Formatted using black", line |-> 0]>>,
          warnings |-> <<>>,
          temp |-> TempAfter(path, source_code)]
    ELSE IF path \in ToFileNotFound
    THEN [text |-> format_code(source_code).text,
          changes |-> format_code(source_code).changes,
          warnings |-> <<"black not found. Using basic formatter.">>,
          temp |-> TempAfter(path, source_code)]
    ELSE IF path \in ToCalledProcessError
    THEN [text |-> source_code,
          changes |-> <<[msg |-> "black formatting failed", line |-> 0]>>,
          warnings |-> <<"black formatting failed">>,
          temp |-> TempAfter(path, source_code)]
    ELSE [text |-> source_code,
          changes |-> <<[msg |-> "black formatting error", line |-> 0]>>,
          warnings |-> <<"black formatting error">>,
          temp |-> TempAfter(path, source_code)]

-----------------------------------------------------------------------------
(* Inputs *)

Cell(type, source) == [cell_type |-> type, source |-> source]

\* cell.source of the cells a notebook is made of
CellPool ==
    { Cell("markdown", <<>>),
      Cell("markdown", <<"T">>),
      Cell("markdown", <<"T", NL, "U">>),
      Cell("raw", <<"T">>),
      Cell("code", <<"a", "=", "1", NL, "print", "(", "1", ")">>),
      Cell("code", <<"a", "=", "1", NL, "print", "(", "a", ")">>),
      Cell("code", <<"print", "(", "1", ")", NL,
                     "def ", "f", "(", ")", ":", NL, INDENT, "pass">>),
      Cell("code", <<"%", "x">>) }

Notebooks == UNION {[1..n -> CellPool] : n \in 0..MaxCells}

\* statements a cell handed to remove_unused_variables is made of
StmtTexts ==
    { <<"a", "=", "1">>,
      <<"c", "=", "1">>,
      <<"b", "=", "a">>,
      <<"a", "=", "b", "=", "1">>,
      <<"a", ",", "b", "=", "c">>,
      <<"obj", ".", "x", "=", "1">>,
      <<"print", "(", "a", ")">>,
      <<"print", "(", "1", ")">>,
      <<"def ", "f", "(", "a", ")", ":", NL, INDENT, "c", "=", "1">>,
      <<"class ", "K", ":", NL, INDENT, "pass">>,
      <<"for ", "c", "in", "a", ":", NL, INDENT, "b", "=", "1">>,
      <<"%", "x">> }

PruneSources ==
    {join(<<NL>>, ss) : ss \in UNION {[1..n -> StmtTexts] : n \in 0..MaxStmts}}

\* lines a text handed to format_code is made of
LinePool ==
    { <<"def ", "f", "(", ")", ":">>,
      <<"class ", "K", ":">>,
      <<>>,
      <<" ">>,
      <<"x">>,
      <<INDENT, "pass">> }

FormatSources ==
    {join(<<NL>>, ls) \o end :
        ls \in UNION {[1..n -> LinePool] : n \in 0..MaxLines},
        end \in {<<>>, <<NL>>}}

-----------------------------------------------------------------------------
(* convert_ipynb_to_py *)

Logged(level, msg) == [level |-> level, msg |-> msg]

ConvInit ==
    /\ pc = "load"
    /\ notebook \in Notebooks
    /\ remove_unused \in BOOLEAN
    /\ use_black \in BOOLEAN
    /\ idx = 1
    /\ python_code = <<>>
    /\ formatted_code = <<>>
    /\ changes = <<>>
    /\ log = <<>>
    /\ outFile = NoFile
    /\ tempFile = NoFile
    /\ blackPath = ""
    /\ abortStage = ""

ConvIdle ==
    /\ pc = "idle"
    /\ notebook = <<>>
    /\ remove_unused = FALSE
    /\ use_black = FALSE
    /\ idx = 1
    /\ python_code = <<>>
    /\ formatted_code = <<>>
    /\ changes = <<>>
    /\ log = <<>>
    /\ outFile = NoFile
    /\ tempFile = NoFile
    /\ blackPath = ""
    /\ abortStage = ""

NoResult == [text |-> <<>>, warned |-> FALSE]
PruneIdle == p_pc = "idle" /\ p_source = <<>> /\ p_once = NoResult /\ p_twice = NoResult
NoFormat == [text |-> <<>>, changes |-> <<>>]
FmtIdle == f_pc = "idle" /\ f_source = <<>> /\ f_result = NoFormat

\* mutant of Abort: the exception is swallowed without a log record
Abort_Silent(stage, exc) ==
    /\ log' = log
    /\ abortStage' = stage
    /\ pc' = "done"

\* the two except clauses of convert_ipynb_to_py
Abort(stage, exc) ==
    /\ log' = Append(log, Logged("error",
                IF exc = "FileNotFoundError" THEN "File not found"
                ELSE "An error occurred"))
    /\ abortStage' = stage
    /\ pc' = "done"

\* open(ipynb_path) and nbformat.read
Load ==
    /\ pc = "load"
    /\ \E outcome \in {"ok", "FileNotFoundError", "Exception"} :
         IF outcome = "ok"
         THEN pc' = "cells" /\ UNCHANGED <<log, abortStage>>
         ELSE Abort("load", outcome)
    /\ UNCHANGED <<notebook, remove_unused, use_black, idx, python_code,
                   formatted_code, changes, outFile, tempFile, blackPath>>
    /\ UNCHANGED <<pruneVars, fmtVars>>

AtCell(type) ==
    /\ pc = "cells"
    /\ idx <= Len(notebook)
    /\ notebook[idx].cell_type = type

\* what a code cell adds to python_code, and whether a warning was logged
CodeCellText(source, prune) ==
    IF prune THEN remove_unused_variables(source)
    ELSE [text |-> source, warned |-> FALSE]

CodeCell ==
    /\ AtCell("code")
    /\ LET r == CodeCellText(notebook[idx].source, remove_unused) IN
         /\ python_code' = python_code \o r.text \o <<NL, NL>>
         /\ log' = IF r.warned
                   THEN Append(log, Logged("warning",
                            "Syntax error, skipping variable removal"))
                   ELSE log
    /\ idx' = idx + 1
    /\ UNCHANGED <<pc, notebook, remove_unused, use_black, formatted_code,
                   changes, outFile, tempFile, blackPath, abortStage>>
    /\ UNCHANGED <<pruneVars, fmtVars>>

\* remove_unused_variables raises something other than SyntaxError (only
\* SyntaxError is caught there); ast.parse did not raise SyntaxError
CodeCellRaises ==
    /\ AtCell("code")
    /\ remove_unused
    /\ ast_parse(notebook[idx].source).ok
    /\ Abort("prune", "Exception")
    /\ UNCHANGED <<notebook, remove_unused, use_black, idx, python_code,
                   formatted_code, changes, outFile, tempFile, blackPath>>
    /\ UNCHANGED <<pruneVars, fmtVars>>

\* mutant of commented_markdown: no line break before the first comment line
commented_markdown_NoLeadingBreak(source) ==
    <<"# ">> \o join(<<NL, "# ">>, splitlines(source)) \o <<NL, NL>>

commented_markdown(source) ==
    <<NL, "# ">> \o join(<<NL, "# ">>, splitlines(source)) \o <<NL, NL>>

MarkdownCell ==
    /\ AtCell("markdown")
    /\ python_code' = python_code \o commented_markdown(notebook[idx].source)
    /\ idx' = idx + 1
    /\ UNCHANGED <<pc, notebook, remove_unused, use_black, formatted_code,
                   changes, log, outFile, tempFile, blackPath, abortStage>>
    /\ UNCHANGED <<pruneVars, fmtVars>>

\* a cell that is neither code nor markdown is skipped
OtherCell ==
    /\ pc = "cells"
    /\ idx <= Len(notebook)
    /\ notebook[idx].cell_type \notin {"code", "markdown"}
    /\ idx' = idx + 1
    /\ UNCHANGED <<pc, notebook, remove_unused, use_black, python_code,
                   formatted_code, changes, log, outFile, tempFile, blackPath,
                   abortStage>>
    /\ UNCHANGED <<pruneVars, fmtVars>>

\* the logging.info calls made when the formatter returned changes
ChangeLog(chg, header) ==
    IF chg = <<>> THEN <<>>
    ELSE <<Logged("info", header)>>
           \o [k \in DOMAIN chg |-> Logged("info", chg[k].msg)]

FormatBlack ==
    /\ pc = "cells"
    /\ idx > Len(notebook)
    /\ use_black
    /\ \E path \in BlackPaths, rewritten \in BlackRewrites(python_code) :
         /\ path = "success" => BlackAccepts(python_code)
         /\ path # "success" => rewritten = python_code
         /\ LET r == format_with_black(python_code, path, rewritten) IN
              /\ formatted_code' = r.text
              /\ changes' = r.changes
              /\ tempFile' = r.temp
              /\ log' = log
                   \o [k \in DOMAIN r.warnings |-> Logged("warning", r.warnings[k])]
                   \o ChangeLog(r.changes,
                                "Formatting changes applied (using black)")
         /\ blackPath' = path
    /\ pc' = "write"
    /\ UNCHANGED <<notebook, remove_unused, use_black, idx, python_code,
                   outFile, abortStage>>
    /\ UNCHANGED <<pruneVars, fmtVars>>

FormatBasic ==
    /\ pc = "cells"
    /\ idx > Len(notebook)
    /\ ~use_black
    /\ LET r == format_code(python_code) IN
         /\ formatted_code' = r.text
         /\ changes' = r.changes
         /\ log' = log \o ChangeLog(r.changes, "Formatting changes applied")
    /\ pc' = "write"
    /\ UNCHANGED <<notebook, remove_unused, use_black, idx, python_code,
                   outFile, tempFile, blackPath, abortStage>>
    /\ UNCHANGED <<pruneVars, fmtVars>>

\* open(py_path, 'w') and f.write: "open_missing" and "open_error" raise in
\* open, "write_error" raises in f.write after open truncated the file
Write ==
    /\ pc = "write"
    /\ \E outcome \in {"ok", "open_missing", "open_error", "write_error"} :
         IF outcome = "ok"
         THEN /\ outFile' = File(formatted_code)
              /\ log' = Append(log, Logged("info", "Successfully converted"))
              /\ pc' = "done"
              /\ UNCHANGED abortStage
         ELSE /\ outFile' = IF outcome = "write_error" THEN File(<<>>) ELSE outFile
              /\ Abort("write", IF outcome = "open_missing"
                                THEN "FileNotFoundError" ELSE "Exception")
    /\ UNCHANGED <<notebook, remove_unused, use_black, idx, python_code,
                   formatted_code, changes, tempFile, blackPath>>
    /\ UNCHANGED <<pruneVars, fmtVars>>

Init == ConvInit /\ PruneIdle /\ FmtIdle

Next ==
    \/ Load
    \/ CodeCell
    \/ CodeCellRaises
    \/ MarkdownCell
    \/ OtherCell
    \/ FormatBlack
    \/ FormatBasic
    \/ Write

Spec == Init /\ [][Next]_vars

-----------------------------------------------------------------------------
(* remove_unused_variables on its own: one call, then a call on its result *)

PruneInit ==
    /\ p_pc = "start"
    /\ p_source \in PruneSources
    /\ p_once = NoResult
    /\ p_twice = NoResult
    /\ ConvIdle
    /\ FmtIdle

PruneOnce ==
    /\ p_pc = "start"
    /\ p_once' = remove_unused_variables(p_source)
    /\ p_pc' = "once"
    /\ UNCHANGED <<p_source, p_twice, convVars, fmtVars>>

PruneTwice ==
    /\ p_pc = "once"
    /\ p_twice' = remove_unused_variables(p_once.text)
    /\ p_pc' = "twice"
    /\ UNCHANGED <<p_source, p_once, convVars, fmtVars>>

PruneNext == PruneOnce \/ PruneTwice

SpecPrune == PruneInit /\ [][PruneNext]_vars

-----------------------------------------------------------------------------
(* format_code on its own *)

FmtInit ==
    /\ f_pc = "start"
    /\ f_source \in FormatSources
    /\ f_result = NoFormat
    /\ ConvIdle
    /\ PruneIdle

FormatCode ==
    /\ f_pc = "start"
    /\ f_result' = format_code(f_source)
    /\ f_pc' = "done"
    /\ UNCHANGED <<f_source, convVars, pruneVars>>

FmtNext == FormatCode

SpecFormat == FmtInit /\ [][FmtNext]_vars

-----------------------------------------------------------------------------
(* Claims about format_with_black and convert_ipynb_to_py (Spec) *)

\* the formatting step of convert_ipynb_to_py has returned
Returned == pc = "write" \/ (pc = "done" /\ abortStage \in {"", "write"})
Succeeded == pc = "done" /\ abortStage = ""
HasLog(level, msg) == \E k \in DOMAIN log : log[k] = Logged(level, msg)
HasError == \E k \in DOMAIN log : log[k].level = "error"

\* C1: when format_with_black has returned, on whichever exit path, the
\* temporary file it created no longer exists.
C1_TempFileRemoved ==
    (Returned /\ blackPath # "") => ~tempFile.exists

\* C2: a run that aborted while loading or pruning has created no output
\* file and has logged an error; the output file exists only once loading,
\* assembly of every cell and formatting have returned, and then holds
\* nothing but the formatted text (or nothing, if the write itself failed).
C2_OutputOnlyAfterAllStages ==
    /\ abortStage \in {"", "load", "prune", "write"}
    /\ (pc = "done" /\ abortStage # "") => HasError
    /\ abortStage \in {"load", "prune"} => (pc = "done" /\ ~outFile.exists)
    /\ pc # "done" => ~outFile.exists
    /\ outFile.exists =>
         /\ abortStage \in {"", "write"}
         /\ idx = Len(notebook) + 1
         /\ use_black => blackPath # ""
         /\ outFile.content = IF abortStage = "" THEN formatted_code ELSE <<>>

\* C2 witness: a run aborted by an exception in pruning after a first cell
\* had been assembled; no output file.
C2_Witness ==
    /\ pc = "done"
    /\ abortStage = "prune"
    /\ idx = 2
    /\ python_code # <<>>
    /\ ~outFile.exists
    /\ HasError

\* C3: with external formatting enabled, a missing formatter executable
\* yields the minimal formatter's output for the assembled text; a formatter
\* that exits non-zero, or any other exception of the invocation, yields the
\* unformatted text with exactly one recorded message; in these three cases
\* the run goes on to the write, and the file written holds that text.
C3_FormattingFailureNeverAborts ==
    LET failed == blackPath \in {"black_missing", "black_failed", "black_error"}
    IN failed =>
         /\ Returned
         /\ blackPath = "black_missing" =>
              /\ formatted_code = join(<<NL>>,
                    FormatFrom(splitlines(python_code), 1, <<>>, <<>>, TRUE).lines)
              /\ ~HasError \/ abortStage = "write"
         /\ blackPath \in {"black_failed", "black_error"} =>
              /\ formatted_code = python_code
              /\ Len(changes) = 1
         /\ pc = "done" => abortStage \in {"", "write"}
         /\ Succeeded => outFile = File(formatted_code)

\* C3 witness: the executable was missing, the minimal formatter changed the
\* text, and the output file was written with it.
C3_Witness ==
    /\ Succeeded
    /\ blackPath = "black_missing"
    /\ changes # <<>>
    /\ outFile = File(formatted_code)
    /\ formatted_code # python_code

\* text a processed cell contributes, written out from lines 29-37
CellContribution(cell, prune) ==
    IF cell.cell_type = "code"
    THEN (IF prune /\ ast_parse(cell.source).ok
          THEN unparse(new_tree(ast_parse(cell.source).body))
          ELSE cell.source) \o <<NL, NL>>
    ELSE IF cell.cell_type = "markdown"
    THEN <<NL>> \o join(<<NL>>, IF splitlines(cell.source) = <<>>
                                THEN <<<<"# ">>>>
                                ELSE [k \in DOMAIN splitlines(cell.source) |->
                                        <<"# ">> \o splitlines(cell.source)[k]])
           \o <<NL, NL>>
    ELSE <<>>

Unparseable(k) ==
    notebook[k].cell_type = "code" /\ ~ast_parse(notebook[k].source).ok

SyntaxWarning == Logged("warning", "Syntax error, skipping variable removal")

\* C8: a code cell that fails to parse goes into the text unchanged and a
\* warning is recorded for it; the run is not aborted at that cell, the
\* cells around it are pruned as usual, and a run that is not aborted
\* elsewhere writes the output file.
C8_ParseFailureConfined ==
    /\ (pc \in {"cells", "write", "done"} /\ abortStage # "load") =>
         /\ python_code =
              Concat([k \in 1..(idx - 1) |-> CellContribution(notebook[k], remove_unused)])
         /\ Cardinality({k \in DOMAIN log : log[k] = SyntaxWarning}) =
              IF remove_unused
              THEN Cardinality({k \in 1..(idx - 1) : Unparseable(k)})
              ELSE 0
    /\ abortStage = "prune" => (idx <= Len(notebook) /\ ~Unparseable(idx))
    /\ Succeeded => outFile.exists

\* C8 witness: an unparseable cell followed by a cell that was pruned, in a
\* run that wrote its output.
C8_Witness ==
    /\ Succeeded
    /\ remove_unused
    /\ Len(notebook) = 2
    /\ Unparseable(1)
    /\ notebook[2].cell_type = "code"
    /\ ast_parse(notebook[2].source).ok
    /\ CellContribution(notebook[2], TRUE) # notebook[2].source \o <<NL, NL>>
    /\ HasLog("warning", "Syntax error, skipping variable removal")
    /\ outFile.exists

AllMarkdown == \A k \in DOMAIN notebook : notebook[k].cell_type = "markdown"

\* each cell's lines prefixed with "# ", the cells joined by one blank line
MarkdownPrefixed ==
    join(<<NL, NL>>,
         [k \in DOMAIN notebook |->
            join(<<NL>>, [m \in DOMAIN splitlines(notebook[k].source) |->
                            <<"# ">> \o splitlines(notebook[k].source)[m]])])

\* C9 (as stated): for a notebook of markdown cells only, the written output
\* is each cell's lines prefixed with "# ", the cells joined with blank-line
\* separators, whatever the pruning and formatting flags.
C9_MarkdownOutputSameForAllFlags ==
    (Succeeded /\ AllMarkdown) => outFile.content = MarkdownPrefixed

\* for each cell: a line break, its lines prefixed with "# " (one bare "# "
\* when it has no line), two line breaks
MarkdownBlob ==
    Concat([k \in DOMAIN notebook |-> CellContribution(notebook[k], FALSE)])

\* C9 (amended): for a notebook of markdown cells only, the assembled text
\* is, per cell in order, a line break, the cell's lines each prefixed with
\* "# " (a single "# " for a cell without lines) and two line breaks,
\* whatever the pruning flag; the written output is that text as the chosen
\* formatter returns it: without its final line break when external
\* formatting is disabled or the executable is missing, unchanged when the
\* external formatter fails, and as the external formatter left it otherwise.
C9_MarkdownOutputAmended ==
    (AllMarkdown /\ Returned) =>
      /\ python_code = MarkdownBlob
      /\ (~use_black \/ blackPath \in ToFileNotFound) =>
           formatted_code = SubSeq(MarkdownBlob, 1, Len(MarkdownBlob) - 1)
      /\ blackPath \in ToCalledProcessError \cup ToException =>
           formatted_code = MarkdownBlob
      /\ blackPath = "success" => formatted_code \in BlackRewrites(MarkdownBlob)
      /\ Succeeded => outFile = File(formatted_code)

\* C9 witness: two markdown cells, one of them without lines, written with
\* external formatting disabled.
C9_Witness ==
    /\ Succeeded
    /\ AllMarkdown
    /\ Len(notebook) = 2
    /\ notebook[1].source = <<>>
    /\ notebook[2].source # <<>>
    /\ ~use_black
    /\ outFile.content = <<NL, "# ", NL, NL, NL, "# ", "T", NL>>

-----------------------------------------------------------------------------
(* Claims about remove_unused_variables (SpecPrune) *)

InTree == ast_parse(p_source)
OnceTree == ast_parse(p_once.text)
TwiceTree == ast_parse(p_twice.text)
Pruned == p_pc \in {"once", "twice"} /\ InTree.ok

\* the names a target binds
TargetNames(t) == IF t.t = "Attribute" THEN {} ELSE Range(t.ids)

\* a target is kept when a name it binds is read somewhere in the cell
TargetRead(t, body) == TargetNames(t) \cap used_vars(body) # {}

ReadTargets(node, body) == SelectSeq(node.targets, LAMBDA t : TargetRead(t, body))

\* the statement list the rule of C4 prescribes for a cell
PrescribedBody(body) ==
    Concat([k \in DOMAIN body |->
              IF body[k].kind # "Assign" THEN <<body[k]>>
              ELSE IF ReadTargets(body[k], body) = <<>> THEN <<>>
              ELSE <<[body[k] EXCEPT !.targets = ReadTargets(body[k], body)]>>])

\* C4: for a cell that parses, every top-level assignment is kept with
\* exactly those of its targets whose name is read in the cell, and dropped
\* when there is none; so a name assigned at top level and read in the cell
\* is still assigned in the result, and one never read is not.
C4_AssignmentsKeptByReadTargets ==
    Pruned => (OnceTree.ok /\ OnceTree.body = PrescribedBody(InTree.body))

IsMultiTarget(node) ==
    /\ node.kind = "Assign"
    /\ Len(node.targets) > 1 \/ \E k \in DOMAIN node.targets : node.targets[k].t = "Tuple"

\* the result holds the assignment with some of its targets, each whole
KeptIn(node, body) ==
    \E j \in DOMAIN body :
       /\ body[j].kind = "Assign"
       /\ body[j].value = node.value
       /\ body[j].targets # <<>>
       /\ Range(body[j].targets) \subseteq Range(node.targets)

\* C5: a top-level tuple or multi-target assignment is kept, its targets
\* whole, if any of its target names is read in the cell, and dropped with
\* all its targets otherwise.
C5_MultiTargetKeptIfAnyRead ==
    Pruned =>
      \A k \in DOMAIN InTree.body :
         IsMultiTarget(InTree.body[k]) =>
           (KeptIn(InTree.body[k], OnceTree.body)
              <=> \E j \in DOMAIN InTree.body[k].targets :
                     TargetRead(InTree.body[k].targets[j], InTree.body))

\* C6: pruning the pruned text of a cell that parses gives the same
\* statements again.
C6_PruningIdempotent ==
    (p_pc = "twice" /\ InTree.ok) => TwiceTree = OnceTree

IsNotAssign(node) == node.kind # "Assign"

\* C7: every top-level statement that is not an assignment is in the pruned
\* text unchanged, nested statements included, in the original order, also
\* when the name it binds is unused.
C7_NonAssignmentsUntouched ==
    Pruned =>
      /\ OnceTree.ok
      /\ SelectSeq(OnceTree.body, IsNotAssign) = SelectSeq(InTree.body, IsNotAssign)

\* C7 witness: a function definition whose name and whose nested assignment
\* are unused survives a pruning that dropped a top-level assignment.
C7_Witness ==
    /\ p_pc = "once"
    /\ InTree.ok
    /\ Len(OnceTree.body) < Len(InTree.body)
    /\ \E k \in DOMAIN OnceTree.body :
          /\ OnceTree.body[k].kind = "FunctionDef"
          /\ OnceTree.body[k].name \in unused_vars(InTree.body)
          /\ \E m \in DOMAIN OnceTree.body[k].body :
                /\ OnceTree.body[k].body[m].kind = "Assign"
                /\ OnceTree.body[k].body[m].targets[1].ids[1] \in unused_vars(InTree.body)

-----------------------------------------------------------------------------
(* Claims about format_code (SpecFormat) *)

InLines == splitlines(f_source)
\* the lines of the returned text: f_result.text.split("\n")
OutLines == SplitTok(f_result.text, NL)
Formatted == f_pc = "done" /\ InLines # <<>>

RECURSIVE IsSubseq(_, _)
\* s is t with some elements left out
IsSubseq(s, t) ==
    IF s = <<>> THEN TRUE
    ELSE IF t = <<>> THEN FALSE
    ELSE IF s[1] = t[1] THEN IsSubseq(Tail(s), Tail(t))
    ELSE IsSubseq(s, Tail(t))

NotEmptyLine(line) == line # <<>>

BlankAt(lines, k) == k \in DOMAIN lines /\ StripsEmpty(lines[k])

\* C10 (as stated): in the text format_code returns, every line beginning
\* with "def " or "class " has exactly one blank line before it and exactly
\* one after it, and every other input line is there unchanged and in order.
C10_ExactlyOneBlankAround ==
    Formatted =>
      /\ \A k \in DOMAIN OutLines :
            IsDefLine(OutLines[k]) =>
              /\ BlankAt(OutLines, k - 1) /\ ~BlankAt(OutLines, k - 2)
              /\ BlankAt(OutLines, k + 1) /\ ~BlankAt(OutLines, k + 2)
      /\ IsSubseq(InLines, OutLines)

\* C10 (amended): in the text format_code returns, every line beginning
\* with "def " or "class " has an empty line right after it and, unless it
\* is the first line, a blank line right before it (there may be more blank
\* lines on either side); the input lines are all there, unchanged and in
\* order, and the only lines added are empty ones: one after each such line
\* and one per recorded change.
C10_BlankAroundAmended ==
    /\ (f_pc = "done" /\ InLines = <<>>) => f_result = [text |-> <<>>, changes |-> <<>>]
    /\ Formatted =>
         /\ \A k \in DOMAIN OutLines :
               IsDefLine(OutLines[k]) =>
                 /\ k + 1 \in DOMAIN OutLines /\ OutLines[k + 1] = <<>>
                 /\ k = 1 \/ BlankAt(OutLines, k - 1)
         /\ IsSubseq(InLines, OutLines)
         /\ SelectSeq(OutLines, NotEmptyLine) = SelectSeq(InLines, NotEmptyLine)
         /\ Len(OutLines) = Len(InLines) + Len(SelectSeq(InLines, IsDefLine))
                              + Len(f_result.changes)
         /\ \A k \in DOMAIN f_result.changes :
               /\ f_result.changes[k].line \in DOMAIN InLines
               /\ f_result.changes[k].line > 1
               /\ IsDefLine(InLines[f_result.changes[k].line])
               /\ ~StripsEmpty(InLines[f_result.changes[k].line - 1])

\* C10 witness: a definition line after a non-blank line got an empty line
\* on both sides, and a later definition line that had a blank line before it
\* got one after it only.
C10_Witness ==
    /\ f_pc = "done"
    /\ f_source = <<"x", NL, "def ", "f", "(", ")", ":", NL, NL, "class ", "K", ":">>
    /\ f_result.text = <<"x", NL, NL, "def ", "f", "(", ")", ":", NL, NL, NL,
                         "class ", "K", ":", NL>>
    /\ Len(f_result.changes) = 1

====
